---- MODULE Spec2Model ----
(***************************************************************************)
(* Model of scripts/mercari-rival-list.py: run_once, the crawl of one      *)
(* target followed by the diff of the scraped items against the sheets     *)
(* LIST_SHEET (active ledger) and SOLD_SHEET (sold archive).               *)
(*                                                                         *)
(* Conventions.                                                            *)
(*  - A cell is a string.  A row is a sequence of cells.  A worksheet is   *)
(*    [exists, values], values being every row of the sheet, header row    *)
(*    first, exactly what get_all_values() returns.                        *)
(*  - Indices are Python's: 0-based, and None is written -1 (the value     *)
(*    the code itself substitutes for None at line 267).                   *)
(*  - The header strings of the source are Japanese; the module uses the   *)
(*    ASCII stand-ins ItemName, Price, URL, ListedDate, SoldDate.          *)
(*  - The spreadsheet service stores and returns cell strings verbatim.    *)
(***************************************************************************)
EXTENDS Integers, Sequences, FiniteSets, TLC

\* ------------------------------------------------------------------ bounds
MaxItems == 2         \* elements on one crawled page, and items of a snapshot
MaxLedger == 2        \* data rows of the ledger sheet before the first run
MaxRuns == 2          \* executions of the script against the same spreadsheets
MaxTargets == 2       \* entries of TARGETS

\* --------------------------------------------------------- program constants
TODAY_HEADERS == <<"ItemName", "Price", "URL">>
LIST_HEADERS == <<"ItemName", "Price", "URL", "ListedDate">>
SOLD_HEADERS == <<"ItemName", "Price", "URL", "ListedDate", "SoldDate">>
None == -1
Retries == 3
max_clicks == 300
ScrollRetries == 5

\* The targets run_once distinguishes: a single profile, an aggregate of
\* profiles, and a dict with neither key.
TargetKinds ==
  { [key |-> "MERCARI_PROFILE_URL", profiles |-> 1],
    [key |-> "PROFILE_URLS", profiles |-> 3],
    [key |-> "NO_URL", profiles |-> 0] }

\* yesterday_str of a process started on day d (d = 1, 2, ...).
DATES == <<"2024/05/01", "2024/05/02", "2024/05/03", "2024/05/04", "2024/05/05">>
\* Faulty variant: every process takes the date of the first day.
yesterday_str_of_first_day(d) == DATES[1]
yesterday_str(d) == DATES[d]

\* ------------------------------------------------------------ Python helpers
RECURSIVE LStrip(_), RStrip(_), StrLess(_, _), Sorted(_)

IsSpace(c) == c \in {" ", "\t", "\n"}

LStrip(s) ==
  IF Len(s) > 0 /\ IsSpace(SubSeq(s, 1, 1)) THEN LStrip(SubSeq(s, 2, Len(s))) ELSE s

RStrip(s) ==
  IF Len(s) > 0 /\ IsSpace(SubSeq(s, Len(s), Len(s)))
  THEN RStrip(SubSeq(s, 1, Len(s) - 1)) ELSE s

\* str.strip()
Strip(s) == RStrip(LStrip(s))

\* Code-point order of the characters that occur in the urls of the model.
Chars == " /0123456789:ABCDEFGHIJKLMNOPQRSTUVWXYZabcdefghijklmnopqrstuvwxyz"
Code(c) == CHOOSE i \in 1..Len(Chars) : SubSeq(Chars, i, i) = c

\* a < b for Python strings
StrLess(a, b) ==
  IF Len(b) = 0 THEN FALSE
  ELSE IF Len(a) = 0 THEN TRUE
  ELSE LET ca == Code(SubSeq(a, 1, 1))
           cb == Code(SubSeq(b, 1, 1))
       IN  IF ca # cb THEN ca < cb
           ELSE StrLess(SubSeq(a, 2, Len(a)), SubSeq(b, 2, Len(b)))

\* sorted(S) for a set of strings
Sorted(S) ==
  IF S = {} THEN <<>>
  ELSE LET m == CHOOSE x \in S : \A y \in S \ {x} : StrLess(x, y)
       IN  <<m>> \o Sorted(S \ {m})

Range(s) == {s[i] : i \in 1..Len(s)}

\* r[i] of a Python list, i 0-based, negative i counted from the end
PyAt(r, i) == IF i >= 0 THEN r[i + 1] ELSE r[Len(r) + i + 1]

\* list.index(x): the first index, or None where Python raises ValueError
PyIndex(s, x) ==
  IF x \in Range(s) THEN (CHOOSE i \in 1..Len(s) : s[i] = x /\ \A j \in 1..(i - 1) : s[j] # x) - 1
  ELSE None


\* ------------------------------------------------------------- gspread sheets
NoSheet == [exists |-> FALSE, values |-> <<>>]

\* ws.row_values(1)
row_values1(ws) == IF Len(ws.values) >= 1 THEN ws.values[1] ELSE <<>>

\* ws.get_all_values()
get_all_values(ws) == ws.values

\* One written row laid over the cells the sheet already has in that row.
OverlayRow(old, new) == new \o SubSeq(old, Len(new) + 1, Len(old))

\* ws.update(range starting at row `first`, data): the rows first.. of the sheet
\* take the cells of data, the other rows stay.
ws_update(ws, first, data) ==
  LET last == first + Len(data) - 1
      n == IF Len(ws.values) > last THEN Len(ws.values) ELSE last
      old(i) == IF i <= Len(ws.values) THEN ws.values[i] ELSE <<>>
  IN  [ws EXCEPT !.values =
         [i \in 1..n |-> IF i >= first /\ i <= last
                         THEN OverlayRow(old(i), data[i - first + 1])
                         ELSE old(i)]]

\* ws.clear()
ws_clear(ws) == [ws EXCEPT !.values = <<>>]

\* Faulty variant: the rows are written from row 2 down instead of after the last row.
ws_append_rows_at_top(ws, rows) ==
  [ws EXCEPT !.values = SubSeq(ws.values, 1, 1) \o rows]

\* Faulty variant: a row whose third cell (the url) the sheet already holds in
\* some row is not appended.
ws_append_rows_unless_known(ws, rows) ==
  [ws EXCEPT !.values =
     ws.values \o SelectSeq(rows, LAMBDA r :
                     \A k \in 2..Len(ws.values) :
                       Len(ws.values[k]) < 3 \/ Len(r) < 3 \/ ws.values[k][3] # r[3])]

\* ws.append_rows(rows): the rows go after the last row of the sheet
ws_append_rows(ws, rows) == [ws EXCEPT !.values = ws.values \o rows]

\* ss.add_worksheet(title)
add_worksheet == [exists |-> TRUE, values |-> <<>>]

\* update_or_create_today_sheet(ss, sheet_name, header, rows): the sheet after
\* the call
update_or_create_today_sheet(ws, header, rows) ==
  LET w == IF ws.exists THEN ws_clear(ws) ELSE add_worksheet
  IN  ws_update(w, 1, <<header>> \o rows)

\* get_or_create_worksheet(ss, title, headers): the sheet after the call
get_or_create_worksheet(ws, headers) ==
  IF ~ws.exists THEN ws_update(add_worksheet, 1, <<headers>>)
  ELSE LET current == row_values1(ws)
           missing == SelectSeq(headers, LAMBDA h : h \notin Range(current))
           updated == current \o missing
       IN  IF missing # <<>> THEN ws_update(ws, 1, <<updated>>) ELSE ws

\* Faulty variant: the position of the column in the documented layout is used,
\* not its position in the header read from the sheet.
header_get_by_layout(head, name) == PyIndex(SOLD_HEADERS, name)

\* header_index_map(ws)[0].get(name): the dict comprehension keeps the last
\* index of a repeated name; .get gives None for a name that is absent
header_get(head, name) ==
  IF name \in Range(head)
  THEN (CHOOSE i \in 1..Len(head) : head[i] = name /\ \A j \in (i + 1)..Len(head) : head[j] # name) - 1
  ELSE None

\* ------------------------------------------------------- rows_to_dict_by_url
RECURSIVE rows_to_dict_acc(_, _, _)
rows_to_dict_acc(rows, url_idx, out) ==
  IF rows = <<>> THEN out
  ELSE LET r == Head(rows)
           u == IF url_idx < Len(r) THEN Strip(PyAt(r, url_idx)) ELSE ""
       IN  IF url_idx < Len(r) /\ u # "" /\ u \notin DOMAIN out
           THEN rows_to_dict_acc(Tail(rows), url_idx, out @@ (u :> r))
           ELSE rows_to_dict_acc(Tail(rows), url_idx, out)

\* Faulty variant: the last row of a url wins (the test `u not in out` is lost).
RECURSIVE rows_to_dict_last(_, _, _)
rows_to_dict_last(rows, url_idx, out) ==
  IF rows = <<>> THEN out
  ELSE LET r == Head(rows)
           u == IF url_idx < Len(r) THEN Strip(PyAt(r, url_idx)) ELSE ""
       IN  IF url_idx < Len(r) /\ u # ""
           THEN rows_to_dict_last(Tail(rows), url_idx,
                                  (u :> r) @@ out)
           ELSE rows_to_dict_last(Tail(rows), url_idx, out)

rows_to_dict_last_wins(rows, url_idx) == rows_to_dict_last(rows, url_idx, <<>>)

\* Faulty variant: the url cell is used as it is (the .strip() is lost).
RECURSIVE rows_to_dict_raw(_, _, _)
rows_to_dict_raw(rows, url_idx, out) ==
  IF rows = <<>> THEN out
  ELSE LET r == Head(rows)
           u == IF url_idx < Len(r) THEN PyAt(r, url_idx) ELSE ""
       IN  IF url_idx < Len(r) /\ u # "" /\ u \notin DOMAIN out
           THEN rows_to_dict_raw(Tail(rows), url_idx, out @@ (u :> r))
           ELSE rows_to_dict_raw(Tail(rows), url_idx, out)

rows_to_dict_unstripped(rows, url_idx) == rows_to_dict_raw(rows, url_idx, <<>>)

rows_to_dict_by_url(rows, url_idx) == rows_to_dict_acc(rows, url_idx, <<>>)

\* ------------------------------------------------ collect_items_current_page
\* An element of the page is [name, price, url, ok]; ok = FALSE is an anchor
\* whose name or price span is missing, so that find_element raises.
RECURSIVE collect_acc(_, _, _)
collect_acc(elements, seen, items) ==
  IF elements = <<>> THEN items
  ELSE LET el == Head(elements)
       IN  IF el.url = "" \/ el.url \in seen
           THEN collect_acc(Tail(elements), seen, items)
           ELSE IF ~el.ok
           THEN collect_acc(Tail(elements), seen \cup {el.url}, items)
           ELSE collect_acc(Tail(elements), seen \cup {el.url},
                            Append(items, <<Strip(el.name), Strip(el.price), el.url>>))

collect_items_current_page(elements) == collect_acc(elements, {}, <<>>)


\* ----------------------------------------------- run_once, the diff (pure part)
\* new_row[idx] = v under the guard `idx is not None and idx < len(new_row)`
SetCell(row, idx, v) ==
  IF idx # None /\ idx < Len(row) THEN [row EXCEPT ![idx + 1] = v] ELSE row

\* r[idx] if (idx is not None and idx < len(r)) else ""
GetCell(r, idx) == IF idx # None /\ idx < Len(r) THEN PyAt(r, idx) ELSE ""

\* [""] * n
Blanks(n) == [i \in 1..n |-> ""]

\* Faulty variant: the new urls are sorted in descending order.
DiffToAddDescending(today_urls_, list_urls_) ==
  [i \in 1..Cardinality(today_urls_ \ list_urls_) |->
     Sorted(today_urls_ \ list_urls_)[Cardinality(today_urls_ \ list_urls_) + 1 - i]]

\* Faulty variant: every url of the snapshot is taken as new.
DiffToAddAll(today_urls_, list_urls_) == Sorted(today_urls_)

\* lines 280-281
DiffToAdd(today_urls_, list_urls_) == Sorted(today_urls_ \ list_urls_)
DiffToSold(today_urls_, list_urls_) == Sorted(list_urls_ \ today_urls_)

\* Faulty variant: the price index is used for the name too.
NewListRowPriceTwice(u, r, t_header, l_header, date) ==
  LET t_idx_price == PyIndex(t_header, "Price")
      price == IF t_idx_price < Len(r) THEN PyAt(r, t_idx_price) ELSE ""
      r0 == [i \in 1..Len(l_header) |-> ""]
      r1 == IF header_get(l_header, "ItemName") # None
            THEN [r0 EXCEPT ![header_get(l_header, "ItemName") + 1] = price] ELSE r0
      r2 == IF header_get(l_header, "Price") # None
            THEN [r1 EXCEPT ![header_get(l_header, "Price") + 1] = price] ELSE r1
      r3 == IF header_get(l_header, "URL") # None
            THEN [r2 EXCEPT ![header_get(l_header, "URL") + 1] = u] ELSE r2
  IN  IF header_get(l_header, "ListedDate") # None
      THEN [r3 EXCEPT ![header_get(l_header, "ListedDate") + 1] = date] ELSE r3

\* lines 286-293: the ledger row built for the url u of to_add_urls
NewListRow(u, r, t_header, l_header, date) ==
  LET t_idx_name == PyIndex(t_header, "ItemName")
      t_idx_price == PyIndex(t_header, "Price")
      name == IF t_idx_name < Len(r) THEN PyAt(r, t_idx_name) ELSE ""
      price == IF t_idx_price < Len(r) THEN PyAt(r, t_idx_price) ELSE ""
      r0 == Blanks(Len(l_header))
      r1 == SetCell(r0, header_get(l_header, "ItemName"), name)
      r2 == SetCell(r1, header_get(l_header, "Price"), price)
      r3 == SetCell(r2, header_get(l_header, "URL"), u)
  IN  SetCell(r3, header_get(l_header, "ListedDate"), date)

\* Faulty variant: the archive row takes the reference date as its listed date.
NewSoldRowRestamped(u, r, l_header, s_header, date) ==
  LET cell(col) == IF header_get(l_header, col) # None /\ header_get(l_header, col) < Len(r)
                   THEN PyAt(r, header_get(l_header, col)) ELSE ""
      put(row, col, v) == IF header_get(s_header, col) # None
                          THEN [row EXCEPT ![header_get(s_header, col) + 1] = v] ELSE row
      r0 == [i \in 1..Len(s_header) |-> ""]
      r1 == put(r0, "ItemName", cell("ItemName"))
      r2 == put(r1, "Price", cell("Price"))
      r3 == put(r2, "URL", u)
      r4 == put(r3, "ListedDate", date)
  IN  put(r4, "SoldDate", date)

\* lines 299-308: the archive row built for the url u of to_sold_urls
NewSoldRow(u, r, l_header, s_header, date) ==
  LET name == GetCell(r, header_get(l_header, "ItemName"))
      price == GetCell(r, header_get(l_header, "Price"))
      outdate == GetCell(r, header_get(l_header, "ListedDate"))
      r0 == Blanks(Len(s_header))
      r1 == SetCell(r0, header_get(s_header, "ItemName"), name)
      r2 == SetCell(r1, header_get(s_header, "Price"), price)
      r3 == SetCell(r2, header_get(s_header, "URL"), u)
      r4 == SetCell(r3, header_get(s_header, "ListedDate"), outdate)
  IN  SetCell(r4, header_get(s_header, "SoldDate"), date)

\* Faulty variant: the test is inverted, the rows that are not sold are dropped.
IsSoldRowInverted(r, idx_url, sold_urls) ==
  LET u == IF idx_url # None /\ idx_url < Len(r) THEN PyAt(r, idx_url) ELSE ""
  IN  u # "" /\ u \notin Range(sold_urls)

\* lines 313-317: the test that drops a ledger row
IsSoldRow(r, idx_url, sold_urls) ==
  LET u == GetCell(r, idx_url)
  IN  u # "" /\ u \in Range(sold_urls)

RemainingRows(rows, idx_url, sold_urls) ==
  SelectSeq(rows, LAMBDA r : ~IsSoldRow(r, idx_url, sold_urls))


\* ------------------------------------------------------------------- state
VARIABLES
  TARGETS,                 \* the configured targets, in order
  book,                    \* book[i]: the spreadsheet of TARGETS[i]: [today, list, sold, stale]
  origin,                  \* origin[i]: book[i] as it was before the first execution
  day,                     \* the day the process runs on (fixes yesterday_str)
  run,                     \* executions of the script started so far
  budget,                  \* executions of the script this exploration makes
  tidx,                    \* position of main's loop: the targets taken so far
  summary,                 \* line 351 has been printed by the running process
  pc,                      \* position in run_once, or of the process around it
  site,                    \* the cards the marketplace can show on a profile page
  page,                    \* what a profile page does while it is crawled
  driver,                  \* "none", "open", "quit"
  quits,                   \* calls of driver.quit() in this run_once
  exc,                     \* the exception unwinding run_once, or "none"
  pidx,                    \* the profile being crawled (1-based)
  attempt,                 \* i of safe_click's loop (0 outside safe_click, Retries once the loop ran out)
  click_gave_up,           \* safe_click has raised at its line 98 during the run
  clicks,                  \* clicks of click_more_until_done (0 outside it)
  last_h,                  \* last_h of slow_scroll_to_load_all (0 outside it)
  retries,                 \* retries of slow_scroll_to_load_all (ScrollRetries outside it)
  all_items,
  ws_today,                \* "none" until line 243 binds it, then "sheet"
  today_header,
  today_by_url,
  list_header,
  list_rows,
  sold_header,
  to_add_urls,
  to_sold_urls,
  rows_to_append_to_list,
  rows_to_append_to_sold,
  remaining_rows,
  sold_appends,            \* the append_rows calls of the run on the archive: their row counts
  deleted,                 \* outcome of step 3: "none", "deleted", "failed"
  pre,                     \* the spreadsheet as the run found it
  last,                    \* how the run before on this spreadsheet ended, and its all_items
  ended,                   \* ended[i]: how the latest run of TARGETS[i] ended, and what it did
  log                      \* log[i]: the runs of TARGETS[i] that have ended, oldest first

crawlVars == <<pidx, attempt, click_gave_up, all_items>>
scrollVars == <<clicks, last_h, retries>>
readVars == <<ws_today, today_header, today_by_url, list_header, list_rows, sold_header>>
diffVars == <<to_add_urls, to_sold_urls, rows_to_append_to_list,
              rows_to_append_to_sold, remaining_rows>>
mainVars == <<TARGETS, origin, day, run, budget, tidx, summary>>
procVars == <<mainVars, site, page, driver, quits, pre, last, ended, log>>
ioVars == <<sold_appends>>
vars == <<book, pc, exc, deleted, crawlVars, scrollVars, readVars, diffVars, ioVars, procVars>>

\* The target run_once is working on, and the spreadsheet line 240 opens for it.
target == TARGETS[tidx]
ss == book[tidx]

\* lines 263-266, 273-277: the indices run_once reads off the two headers
l_idx_url == header_get(list_header, "URL")
list_by_url == rows_to_dict_by_url(list_rows, IF l_idx_url # None THEN l_idx_url ELSE -1)
today_urls == DOMAIN today_by_url
list_urls == DOMAIN list_by_url

\* ------------------------------------------------------------ input domains
\* What a crawled page can show: two cards of the same item url with differing
\* name padding and price, a card of a second item, a card without href, and
\* a card of the second item without its name span.
PageElements ==
  { [name |-> " Bag", price |-> "1,000", url |-> "u1", ok |-> TRUE],
    [name |-> "Bag", price |-> "2,000", url |-> "u1", ok |-> TRUE],
    [name |-> "Cap", price |-> "3,000", url |-> "u2", ok |-> TRUE],
    [name |-> "Hat", price |-> "500", url |-> "", ok |-> TRUE],
    [name |-> "", price |-> "", url |-> "u2", ok |-> FALSE] }

SeqsUpTo(S, n) == UNION {[1..k -> S] : k \in 0..n}

\* A sheet row under `header` holding the fields of the record rec.
MkRow(header, rec) ==
  [i \in 1..Len(header) |-> IF header[i] \in DOMAIN rec THEN rec[header[i]] ELSE ""]

\* Rows the ledger sheet can hold before the first run: three items, a URL cell
\* with a trailing blank, and an empty line.
LedgerRecs ==
  { [ItemName |-> "Bag", Price |-> "900", URL |-> "u1", ListedDate |-> "2024/04/01"],
    [ItemName |-> "Cap", Price |-> "3,000", URL |-> "u2", ListedDate |-> "2024/04/02"],
    [ItemName |-> "Bag", Price |-> "900", URL |-> "u1 ", ListedDate |-> "2024/04/03"],
    [ItemName |-> "Pen", Price |-> "700", URL |-> "u3", ListedDate |-> "2024/04/04"],
    [ItemName |-> "", Price |-> "", URL |-> "", ListedDate |-> ""] }

SoldRec ==
  [ItemName |-> "Pen", Price |-> "100", URL |-> "u1", ListedDate |-> "2024/03/01",
   SoldDate |-> "2024/03/09"]

Sheet(header, recs) ==
  [exists |-> TRUE, values |-> <<header>> \o [i \in 1..Len(recs) |-> MkRow(header, recs[i])]]

LIST_PERMUTED == <<"URL", "ListedDate", "ItemName", "Price">>
LIST_OLD == <<"ItemName", "Price", "URL">>
SOLD_PERMUTED == <<"SoldDate", "URL", "ItemName", "ListedDate", "Price">>

\* The spreadsheets a run can find.
Absent == [today |-> NoSheet, list |-> NoSheet, sold |-> NoSheet, stale |-> {}]

WideSheets ==
  { [today |-> NoSheet, list |-> Sheet(LIST_HEADERS, recs),
     sold |-> Sheet(SOLD_HEADERS, <<SoldRec>>), stale |-> {}]
      : recs \in SeqsUpTo(LedgerRecs, MaxLedger) }
  \cup
  { [today |-> Sheet(TODAY_HEADERS, <<SoldRec>>), list |-> Sheet(h, recs),
     sold |-> Sheet(SOLD_PERMUTED, <<SoldRec>>), stale |-> {}]
      : h \in {LIST_PERMUTED, LIST_OLD},
        recs \in SeqsUpTo({r \in LedgerRecs : r.URL \in {"u1", "u2"}}, MaxLedger) }
  \cup
  { Absent }

SeqSheets ==
  { Absent }
  \cup
  { [today |-> NoSheet, list |-> Sheet(LIST_HEADERS, recs),
     sold |-> Sheet(SOLD_HEADERS, <<>>), stale |-> {}]
      : recs \in SeqsUpTo(LedgerRecs, 1) }
  \cup
  { [today |-> NoSheet, list |-> Sheet(LIST_HEADERS, <<>>),
     sold |-> Sheet(SOLD_HEADERS, <<SoldRec>>), stale |-> {}] }

\* What a profile page does while it is crawled: how often the "more" button
\* can be clicked before the wait for it fails, and the values
\* document.body.scrollHeight takes.
CalmPage == [more |-> 1, heights |-> {1}]

\* A page that never runs out of "more" buttons and whose height keeps changing.
RestlessPage == [more |-> max_clicks + 1, heights |-> {1, 2}]

SingleProfile == CHOOSE t \in TargetKinds : t.key = "MERCARI_PROFILE_URL"
SeveralProfiles == CHOOSE t \in TargetKinds : t.key = "PROFILE_URLS"
TwoCards == {e \in PageElements : e.ok /\ e.price \in {"1,000", "3,000"}}
OneCard == {e \in PageElements : e.ok /\ e.price = "3,000"}

\* A batch of two single-profile targets whose spreadsheets are new.
Pair ==
  [TARGETS |-> <<SingleProfile, SingleProfile>>, book |-> <<Absent, Absent>>,
   site |-> OneCard, page |-> CalmPage, budget |-> 1]

\* What is kept of a run that has ended.  A run that raised leaves nothing
\* behind but the fact.
NotRun == [pc |-> "idle", all_items |-> <<>>, add |-> <<>>, sold |-> <<>>]
Outcome(e) ==
  IF e = "none"
  THEN [pc |-> "done", all_items |-> all_items, add |-> to_add_urls, sold |-> to_sold_urls]
  ELSE [pc |-> "raised", all_items |-> <<>>, add |-> <<>>, sold |-> <<>>]
LogEntry(e, d, n) ==
  [pc |-> IF e = "none" THEN "done" ELSE "raised", day |-> d, run |-> n,
   urls |-> IF e = "none" THEN {all_items[k][3] : k \in 1..Len(all_items)} ELSE {}]

InitWith(configs) ==
  /\ \E c \in configs :
       /\ TARGETS = c.TARGETS
       /\ book = c.book
       /\ origin = c.book
       /\ site = c.site
       /\ page = c.page
       /\ budget = c.budget
  /\ day = 1
  /\ run = 0
  /\ tidx = 0
  /\ summary = FALSE
  /\ pc = "idle"
  /\ driver = "none"
  /\ quits = 0
  /\ exc = "none"
  /\ pidx = 1
  /\ attempt = 0
  /\ click_gave_up = FALSE
  /\ clicks = 0
  /\ last_h = 0
  /\ retries = ScrollRetries
  /\ all_items = <<>>
  /\ ws_today = "none"
  /\ today_header = <<>>
  /\ today_by_url = <<>>
  /\ list_header = <<>>
  /\ list_rows = <<>>
  /\ sold_header = <<>>
  /\ to_add_urls = <<>>
  /\ to_sold_urls = <<>>
  /\ rows_to_append_to_list = <<>>
  /\ rows_to_append_to_sold = <<>>
  /\ remaining_rows = <<>>
  /\ sold_appends = <<>>
  /\ deleted = "none"
  /\ pre = Absent
  /\ last = [pc |-> "idle", all_items |-> <<>>]
  /\ ended = [i \in DOMAIN TARGETS |-> NotRun]
  /\ log = [i \in DOMAIN TARGETS |-> <<>>]

\* One execution of the script: one target of any kind on any spreadsheet and
\* any page, or the pair.
Init ==
  InitWith({ [TARGETS |-> <<t>>, book |-> <<s>>, site |-> PageElements, page |-> CalmPage,
              budget |-> 1] : t \in TargetKinds, s \in WideSheets } \cup {Pair})

\* An aggregate of profiles that all show the same card, on a new spreadsheet.
Aggregate ==
  [TARGETS |-> <<SeveralProfiles>>, book |-> <<Absent>>, site |-> OneCard, page |-> CalmPage,
   budget |-> MaxRuns]

\* Executions one after another: a single-profile target whose seller lists the
\* two items, on a spreadsheet that starts without the sheets or with a small
\* ledger; or the aggregate; or one execution of the pair.
InitSeq ==
  InitWith({ [TARGETS |-> <<SingleProfile>>, book |-> <<s>>, site |-> TwoCards,
              page |-> CalmPage, budget |-> MaxRuns] : s \in SeqSheets }
           \cup {Aggregate, Pair})

\* One execution more, on a new spreadsheet: a single-profile target whose
\* seller lists one item and takes it down and lists it again between the
\* executions; or one execution of the pair.
Relisted ==
  [TARGETS |-> <<SingleProfile>>, book |-> <<Absent>>, site |-> OneCard, page |-> CalmPage,
   budget |-> MaxRuns + 1]
InitDates == InitWith({Relisted, Pair})

\* One execution on new spreadsheets: a single-profile target whose page is
\* calm or restless; or the pair.
InitCrawl ==
  InitWith({ [TARGETS |-> <<SingleProfile>>, book |-> <<Absent>>, site |-> OneCard,
              page |-> pg, budget |-> 1] : pg \in {CalmPage, RestlessPage} } \cup {Pair})

\* The columns of a sheet in another order: column i of the result is column
\* p[i] of the sheet, in the header and in every row.
Perms(n) == {p \in [1..n -> 1..n] : \A i, j \in 1..n : p[i] = p[j] => i = j}
Identity(n) == [i \in 1..n |-> i]
PermuteSheet(ws, p) ==
  [ws EXCEPT !.values = [k \in 1..Len(ws.values) |-> [i \in 1..Len(p) |-> ws.values[k][p[i]]]]]

\* Orders tried together on the ledger (n columns) and the archive (m columns):
\* every order of the one with the other as it is, and every order of the
\* ledger with the archive's last column first and its others alike.
PermPairs(n, m) ==
  {<<p, Identity(m)>> : p \in Perms(n)}
  \cup {<<Identity(n), q>> : q \in Perms(m)}
  \cup {<<p, [i \in 1..m |-> IF i = 1 THEN m ELSE IF i - 1 <= n THEN p[i - 1] ELSE i - 1]>>
          : p \in Perms(n)}

SOLD_OLD == <<"ItemName", "Price", "URL", "ListedDate">>

\* Spreadsheets with the required columns, and with a required column missing.
PermBases ==
  { [today |-> NoSheet,
     list |-> Sheet(LIST_HEADERS, <<CHOOSE r \in LedgerRecs : r.URL = "u2",
                                    CHOOSE r \in LedgerRecs : r.URL = "u3">>),
     sold |-> Sheet(SOLD_HEADERS, <<SoldRec>>), stale |-> {}],
    [today |-> NoSheet,
     list |-> Sheet(LIST_OLD, <<CHOOSE r \in LedgerRecs : r.URL = "u1">>),
     sold |-> Sheet(SOLD_OLD, <<SoldRec>>), stale |-> {}] }

\* One execution of a batch of two targets with the same seller; the second
\* spreadsheet is the first with its ledger and archive columns reordered.
PermConfigs(b) ==
  { [TARGETS |-> <<SingleProfile, SingleProfile>>,
     book |-> <<b, [b EXCEPT !.list = PermuteSheet(@, pq[1]), !.sold = PermuteSheet(@, pq[2])]>>,
     site |-> OneCard, page |-> CalmPage, budget |-> 1]
      : pq \in PermPairs(Len(row_values1(b.list)), Len(row_values1(b.sold))) }

InitPerm == InitWith(UNION {PermConfigs(b) : b \in PermBases})

\* One execution of any batch of up to MaxTargets targets on new spreadsheets.
InitBatch ==
  InitWith({ [TARGETS |-> ts, book |-> [i \in DOMAIN ts |-> Absent], site |-> OneCard,
              page |-> CalmPage, budget |-> 1]
               : ts \in SeqsUpTo(TargetKinds, MaxTargets) \ {<<>>} })


\* ------------------------------------------------------ __main__ and run_once
\* The spreadsheet on day d: the sheet a run of an earlier day left under that
\* day's today_sheet_name is not the today sheet of day d.
Aged(s, d) ==
  IF d # day /\ s.today.exists
  THEN [s EXCEPT !.today = NoSheet, !.stale = @ \cup {day}]
  ELSE s

\* lines 191-194, 199, 215, 233-234: run_once(TARGETS[i]) is entered on the
\* spreadsheets b.  build_driver may raise before the try statement; else the
\* target's kind decides the branch, a target with neither key raises SystemExit.
EnterRunOnce(i, b) ==
  /\ tidx' = i
  /\ pre' = b[i]
  /\ last' = [pc |-> ended[i].pc, all_items |-> ended[i].all_items]
  /\ \E built \in BOOLEAN :
       /\ driver' = IF built THEN "open" ELSE "none"
       /\ pc' = IF ~built THEN "raised"
                ELSE IF TARGETS[i].key = "NO_URL" THEN "finally" ELSE "navigate"
       /\ exc' = IF ~built THEN "Exception"
                 ELSE IF TARGETS[i].key = "NO_URL" THEN "SystemExit" ELSE "none"
       /\ ended' = IF built THEN ended ELSE [ended EXCEPT ![i] = Outcome("Exception")]
       /\ log' = IF built THEN log
                 ELSE [log EXCEPT ![i] = Append(@, LogEntry("Exception", day', run'))]
  /\ quits' = 0
  /\ pidx' = 1
  /\ attempt' = 0
  /\ click_gave_up' = FALSE
  /\ clicks' = 0
  /\ last_h' = 0
  /\ retries' = ScrollRetries
  /\ all_items' = <<>>
  /\ ws_today' = "none"
  /\ today_header' = <<>>
  /\ today_by_url' = <<>>
  /\ list_header' = <<>>
  /\ list_rows' = <<>>
  /\ sold_header' = <<>>
  /\ to_add_urls' = <<>>
  /\ to_sold_urls' = <<>>
  /\ rows_to_append_to_list' = <<>>
  /\ rows_to_append_to_sold' = <<>>
  /\ remaining_rows' = <<>>
  /\ sold_appends' = <<>>
  /\ deleted' = "none"
  /\ UNCHANGED <<TARGETS, origin, budget, site, page>>

\* lines 69-72, 347-350: the script is started; the dates are fixed for the
\* whole execution; main's loop takes the first target.
StartProcess ==
  /\ pc \in {"idle", "exited", "raised"}
  /\ run < budget
  /\ TARGETS # <<>>
  /\ \E d \in {day, day + 1} :
       /\ d = day \/ (run > 0 /\ d <= Len(DATES))
       /\ day' = d
       /\ book' = [i \in DOMAIN book |-> Aged(book[i], d)]
  /\ run' = run + 1
  /\ summary' = FALSE
  /\ EnterRunOnce(1, book')

\* lines 349-350: run_once has returned and main's loop takes the next target
NextTarget ==
  /\ pc = "done"
  /\ tidx < Len(TARGETS)
  /\ UNCHANGED <<book, day, run, summary>>
  /\ EnterRunOnce(tidx + 1, book)

\* line 351: the loop is through and the closing line is printed
Summary ==
  /\ pc = "done"
  /\ tidx = Len(TARGETS)
  /\ summary' = TRUE
  /\ pc' = "exited"
  /\ UNCHANGED <<ioVars, book, exc, deleted, crawlVars, scrollVars, readVars, diffVars, TARGETS, origin, day,
                 run, budget, tidx, site, page, driver, quits, pre, last, ended, log>>

\* lines 202, 220: driver.get(profile_url)
Navigate ==
  /\ pc = "navigate"
  /\ pc' = "safe_click"
  /\ attempt' = 0
  /\ UNCHANGED <<ioVars, scrollVars, book, exc, deleted, pidx, click_gave_up, all_items, readVars, diffVars, procVars>>

\* Faulty variant: the exception of safe_click is not caught and unwinds run_once.
SafeClickPropagates(e) == [pc |-> "finally", exc |-> e]

\* lines 203-207, 221-225: what run_once does with an exception of safe_click:
\* both branches catch it and go on with the crawl.
SafeClickHandler(e) == [pc |-> "click_more", exc |-> "none"]

\* lines 92-94: the element is clickable and is clicked
SafeClickClicked ==
  /\ pc = "safe_click"
  /\ pc' = "click_more"
  /\ attempt' = 0
  /\ UNCHANGED <<ioVars, scrollVars, book, exc, deleted, pidx, click_gave_up, all_items, readVars, diffVars, procVars>>

\* lines 95-98: StaleElementReferenceException; after the last retry the loop
\* ends and safe_click raises
SafeClickStale ==
  /\ pc = "safe_click"
  /\ attempt < Retries
  /\ attempt' = attempt + 1
  /\ IF attempt + 1 < Retries
     THEN UNCHANGED <<ioVars, scrollVars, pc, exc, click_gave_up>>
     ELSE /\ pc' = SafeClickHandler("unstable").pc
          /\ exc' = SafeClickHandler("unstable").exc
          /\ click_gave_up' = TRUE
  /\ UNCHANGED <<ioVars, scrollVars, book, deleted, pidx, all_items, readVars, diffVars, procVars>>

\* line 92: any other exception of the wait (its timeout) leaves safe_click at once
SafeClickTimeout ==
  /\ pc = "safe_click"
  /\ pc' = SafeClickHandler("timeout").pc
  /\ exc' = SafeClickHandler("timeout").exc
  /\ attempt' = 0
  /\ UNCHANGED <<ioVars, scrollVars, book, deleted, pidx, click_gave_up, all_items, readVars, diffVars, procVars>>

\* line 146: the test of click_more_until_done's loop
MoreClicksAllowed(n) == n < max_clicks

\* lines 146-152: the button is clickable and is clicked once more
ClickMore ==
  /\ pc = "click_more"
  /\ MoreClicksAllowed(clicks)
  /\ clicks < page.more
  /\ clicks' = clicks + 1
  /\ UNCHANGED <<ioVars, book, pc, exc, deleted, crawlVars, last_h, retries, readVars, diffVars, procVars>>

\* lines 146, 153-154, 209, 226: the loop ends, at max_clicks or at the first
\* exception of the wait or of the click; no exception leaves the function.
\* lines 158-159: slow_scroll_to_load_all begins.
ClickMoreUntilDone ==
  /\ pc = "click_more"
  /\ pc' = "slow_scroll"
  /\ clicks' = 0
  /\ last_h' = 0
  /\ retries' = ScrollRetries
  /\ UNCHANGED <<ioVars, book, exc, deleted, crawlVars, readVars, diffVars, procVars>>

\* lines 164-168: what one poll does to (last_h, retries)
ScrollStep(h, r, new_h) ==
  IF new_h = h THEN [last_h |-> h, retries |-> r - 1]
  ELSE [last_h |-> new_h, retries |-> ScrollRetries]

\* lines 160-168: one scroll and one reading of the page height
ScrollPoll ==
  /\ pc = "slow_scroll"
  /\ retries > 0
  /\ \E new_h \in page.heights :
       /\ last_h' = ScrollStep(last_h, retries, new_h).last_h
       /\ retries' = ScrollStep(last_h, retries, new_h).retries
  /\ UNCHANGED <<ioVars, book, pc, exc, deleted, crawlVars, clicks, readVars, diffVars, procVars>>

\* lines 160, 210, 227: retries is used up and the loop ends
SlowScrollToLoadAll ==
  /\ pc = "slow_scroll"
  /\ retries = 0
  /\ pc' = "collect"
  /\ last_h' = 0
  /\ retries' = ScrollRetries
  /\ UNCHANGED <<ioVars, book, exc, deleted, crawlVars, clicks, readVars, diffVars, procVars>>

\* lines 211-213, 228-230: the cards of the page join all_items; the aggregate
\* target goes on with its next profile
CollectItems ==
  /\ pc = "collect"
  /\ \E elements \in SeqsUpTo(site, MaxItems) :
       /\ Len(all_items) + Len(elements) <= MaxItems
       /\ all_items' = all_items \o collect_items_current_page(elements)
  /\ IF pidx < target.profiles
     THEN pidx' = pidx + 1 /\ pc' = "navigate"
     ELSE pidx' = pidx /\ pc' = "open_ss"
  /\ UNCHANGED <<ioVars, scrollVars, book, exc, deleted, attempt, click_gave_up, readVars, diffVars, procVars>>

\* lines 237-240
OpenSpreadsheet ==
  /\ pc = "open_ss"
  /\ pc' = "today_sheet"
  /\ UNCHANGED <<ioVars, scrollVars, book, exc, deleted, crawlVars, readVars, diffVars, procVars>>

\* line 243
UpdateOrCreateTodaySheet ==
  /\ pc = "today_sheet"
  /\ book' = [book EXCEPT ![tidx].today = update_or_create_today_sheet(@, TODAY_HEADERS, all_items)]
  /\ ws_today' = "sheet"
  /\ pc' = "read_today"
  /\ UNCHANGED <<ioVars, scrollVars, exc, deleted, crawlVars, today_header, today_by_url, list_header, list_rows,
                 sold_header, diffVars, procVars>>

\* lines 246-256
ReadToday ==
  /\ pc = "read_today"
  /\ LET header == row_values1(ss.today)
         today_rows == IF header # <<>>
                       THEN SubSeq(get_all_values(ss.today), 2, Len(get_all_values(ss.today)))
                       ELSE <<>>
         t_idx_url == PyIndex(header, "URL")
         short == \E h \in Range(TODAY_HEADERS) : PyIndex(header, h) = None
     IN  /\ today_header' = header
         /\ IF short
            THEN /\ exc' = "SystemExit"
                 /\ pc' = "finally"
                 /\ UNCHANGED today_by_url
            ELSE /\ today_by_url' = rows_to_dict_by_url(today_rows, t_idx_url)
                 /\ pc' = "list_sheet"
                 /\ UNCHANGED exc
  /\ UNCHANGED <<ioVars, scrollVars, book, deleted, crawlVars, ws_today, list_header, list_rows, sold_header, diffVars,
                 procVars>>

\* lines 259-268
GetListSheet ==
  /\ pc = "list_sheet"
  /\ LET ws == get_or_create_worksheet(ss.list, LIST_HEADERS)
         list_rows_all == get_all_values(ws)
     IN  /\ book' = [book EXCEPT ![tidx].list = ws]
         /\ list_header' = row_values1(ws)
         /\ list_rows' = IF Len(list_rows_all) > 1
                         THEN SubSeq(list_rows_all, 2, Len(list_rows_all)) ELSE <<>>
  /\ pc' = "sold_sheet"
  /\ UNCHANGED <<ioVars, scrollVars, exc, deleted, crawlVars, ws_today, today_header, today_by_url, sold_header,
                 diffVars, procVars>>

\* lines 271-277
GetSoldSheet ==
  /\ pc = "sold_sheet"
  /\ LET ws == get_or_create_worksheet(ss.sold, SOLD_HEADERS)
     IN  /\ book' = [book EXCEPT ![tidx].sold = ws]
         /\ sold_header' = row_values1(ws)
  /\ pc' = "diff"
  /\ UNCHANGED <<ioVars, scrollVars, exc, deleted, crawlVars, ws_today, today_header, today_by_url, list_header,
                 list_rows, diffVars, procVars>>

\* lines 279-317
ComputeDiff ==
  /\ pc = "diff"
  /\ LET add == DiffToAdd(today_urls, list_urls)
         sold == DiffToSold(today_urls, list_urls)
     IN  /\ to_add_urls' = add
         /\ to_sold_urls' = sold
         /\ rows_to_append_to_list' =
              [i \in 1..Len(add) |->
                 NewListRow(add[i], today_by_url[add[i]], today_header, list_header,
                            yesterday_str(day))]
         /\ rows_to_append_to_sold' =
              [i \in 1..Len(sold) |->
                 NewSoldRow(sold[i], list_by_url[sold[i]], list_header, sold_header,
                            yesterday_str(day))]
         /\ remaining_rows' = RemainingRows(list_rows, l_idx_url, sold)
  /\ pc' = "append_sold"
  /\ UNCHANGED <<ioVars, scrollVars, book, exc, deleted, crawlVars, readVars, procVars>>

\* Faulty variant: the write is issued whether or not there are rows.
HasRowsOrNot(rows) == TRUE

\* lines 320, 325, 328: `if rows:`
HasRows(rows) == rows # <<>>

\* lines 320-321
AppendSold ==
  /\ pc = "append_sold"
  /\ book' = IF HasRows(rows_to_append_to_sold)
           THEN [book EXCEPT ![tidx].sold = ws_append_rows(@, rows_to_append_to_sold)]
           ELSE book
  /\ sold_appends' = IF HasRows(rows_to_append_to_sold)
                     THEN Append(sold_appends, Len(rows_to_append_to_sold))
                     ELSE sold_appends
  /\ pc' = "clear_list"
  /\ UNCHANGED <<scrollVars, exc, deleted, crawlVars, readVars, diffVars, procVars>>

\* line 323
ClearList ==
  /\ pc = "clear_list"
  /\ book' = [book EXCEPT ![tidx].list = ws_clear(@)]
  /\ pc' = "header_list"
  /\ UNCHANGED <<ioVars, scrollVars, exc, deleted, crawlVars, readVars, diffVars, procVars>>

\* line 324
UpdateListHeader ==
  /\ pc = "header_list"
  /\ book' = [book EXCEPT ![tidx].list = ws_update(@, 1, <<list_header>>)]
  /\ pc' = "update_list"
  /\ UNCHANGED <<ioVars, scrollVars, exc, deleted, crawlVars, readVars, diffVars, procVars>>

\* lines 325-326
UpdateRemaining ==
  /\ pc = "update_list"
  /\ book' = IF HasRows(remaining_rows)
           THEN [book EXCEPT ![tidx].list = ws_update(@, 2, remaining_rows)]
           ELSE book
  /\ pc' = "append_list"
  /\ UNCHANGED <<ioVars, scrollVars, exc, deleted, crawlVars, readVars, diffVars, procVars>>

\* lines 328-329
AppendList ==
  /\ pc = "append_list"
  /\ book' = IF HasRows(rows_to_append_to_list)
           THEN [book EXCEPT ![tidx].list = ws_append_rows(@, rows_to_append_to_list)]
           ELSE book
  /\ pc' = "delete_today"
  /\ UNCHANGED <<ioVars, scrollVars, exc, deleted, crawlVars, readVars, diffVars, procVars>>

\* lines 332-335
DeleteToday ==
  /\ pc = "delete_today"
  /\ ss.today.exists
  /\ book' = [book EXCEPT ![tidx].today = NoSheet]
  /\ deleted' = "deleted"
  /\ pc' = "finally"
  /\ UNCHANGED <<ioVars, scrollVars, exc, crawlVars, readVars, diffVars, procVars>>

\* lines 336-337: the lookup or the deletion raises; it is printed and dropped
DeleteTodayFails ==
  /\ pc = "delete_today"
  /\ deleted' = "failed"
  /\ pc' = "finally"
  /\ UNCHANGED <<ioVars, scrollVars, book, exc, crawlVars, readVars, diffVars, procVars>>

\* The positions at which run_once is inside a call of the browser or of the
\* spreadsheet service that it does not guard with try/except.
InCall ==
  \/ pc \in {"navigate", "slow_scroll", "collect", "open_ss", "today_sheet", "read_today",
             "list_sheet", "sold_sheet", "clear_list", "header_list"}
  \/ pc = "append_sold" /\ HasRows(rows_to_append_to_sold)
  \/ pc = "update_list" /\ HasRows(remaining_rows)
  \/ pc = "append_list" /\ HasRows(rows_to_append_to_list)

\* The call raises (WebDriverException, gspread APIError): the try body is left
Raise ==
  /\ InCall
  /\ exc' = "Exception"
  /\ pc' = "finally"
  /\ clicks' = 0
  /\ last_h' = 0
  /\ retries' = ScrollRetries
  /\ UNCHANGED <<ioVars, book, deleted, crawlVars, readVars, diffVars, procVars>>

\* Faulty variant: main catches what run_once raises and goes on with its loop.
AfterRunOnceContinue(e) == "done"

\* lines 349-350: where the process is once run_once has ended with the
\* exception e: main does not catch anything
AfterRunOnce(e) == IF e = "none" THEN "done" ELSE "raised"

\* Faulty variant: driver.quit() is the last statement of the try body, so it
\* is skipped when an exception unwinds.
FinallyOnSuccessOnly ==
  /\ pc = "finally"
  /\ driver' = IF exc = "none" THEN "quit" ELSE driver
  /\ quits' = IF exc = "none" THEN quits + 1 ELSE quits
  /\ pc' = AfterRunOnce(exc)
  /\ ended' = [ended EXCEPT ![tidx] = Outcome(exc)]
  /\ log' = [log EXCEPT ![tidx] = Append(@, LogEntry(exc, day, run))]
  /\ UNCHANGED <<ioVars, book, exc, deleted, crawlVars, scrollVars, readVars, diffVars, mainVars, site,
                 page, pre, last>>

\* lines 342-344: the finally block; then run_once returns or its exception
\* goes on to main
Finally ==
  /\ pc = "finally"
  /\ driver' = "quit"
  /\ quits' = quits + 1
  /\ pc' = AfterRunOnce(exc)
  /\ ended' = [ended EXCEPT ![tidx] = Outcome(exc)]
  /\ log' = [log EXCEPT ![tidx] = Append(@, LogEntry(exc, day, run))]
  /\ UNCHANGED <<ioVars, book, exc, deleted, crawlVars, scrollVars, readVars, diffVars, mainVars, site,
                 page, pre, last>>

Next ==
  \/ StartProcess
  \/ NextTarget
  \/ Summary
  \/ Navigate
  \/ SafeClickClicked
  \/ SafeClickStale
  \/ SafeClickTimeout
  \/ ClickMore
  \/ ClickMoreUntilDone
  \/ ScrollPoll
  \/ SlowScrollToLoadAll
  \/ CollectItems
  \/ OpenSpreadsheet
  \/ UpdateOrCreateTodaySheet
  \/ ReadToday
  \/ GetListSheet
  \/ GetSoldSheet
  \/ ComputeDiff
  \/ AppendSold
  \/ ClearList
  \/ UpdateListHeader
  \/ UpdateRemaining
  \/ AppendList
  \/ DeleteToday
  \/ DeleteTodayFails
  \/ Raise
  \/ Finally

Spec == Init /\ [][Next]_vars
SpecSeq == InitSeq /\ [][Next]_vars
SpecBatch == InitBatch /\ [][Next]_vars
SpecPerm == InitPerm /\ [][Next]_vars
SpecDates == InitDates /\ [][Next]_vars

\* The interpreter goes on executing the script as long as it has a next
\* statement: run_once and its loops are never left half-way by the scheduler.
SpecCrawl == InitCrawl /\ [][Next]_vars /\ WF_vars(Next)


\* =================================================================== claims
\* Vocabulary of the claims, written without the operators of the model above.

\* A string without its leading and trailing blanks.
Trim(s) ==
  LET solid == {i \in 1..Len(s) : SubSeq(s, i, i) # " "}
  IN  IF solid = {} THEN ""
      ELSE SubSeq(s, CHOOSE i \in solid : \A j \in solid : i <= j,
                     CHOOSE i \in solid : \A j \in solid : i >= j)

\* The cell of row r under the column called col, "" where there is none.
FieldOf(header, r, col) ==
  IF \E i \in 1..Len(header) : header[i] = col /\ i <= Len(r)
  THEN r[CHOOSE i \in 1..Len(header) : header[i] = col /\ i <= Len(r)]
  ELSE ""

HeaderOf(ws) == IF Len(ws.values) >= 1 THEN ws.values[1] ELSE <<>>
DataRows(ws) == SubSeq(ws.values, 2, Len(ws.values))

\* The url a row stands for.
UrlOf(header, r) == Trim(FieldOf(header, r, "URL"))

\* The rows of a sheet that stand for the url u, in sheet order.
RowsFor(ws, u) == SelectSeq(DataRows(ws), LAMBDA r : UrlOf(HeaderOf(ws), r) = u)

UrlsOf(ws) == {UrlOf(HeaderOf(ws), DataRows(ws)[i]) : i \in 1..Len(DataRows(ws))} \ {""}

\* The snapshot of the run and the urls in it.
SnapshotUrls == {Trim(all_items[i][3]) : i \in 1..Len(all_items)} \ {""}
FirstItemFor(u) ==
  all_items[CHOOSE i \in 1..Len(all_items) :
              /\ Trim(all_items[i][3]) = u
              /\ \A j \in 1..(i - 1) : Trim(all_items[j][3]) # u]

\* The ledger and the archive before the run, and the three url classes.
PriorUrls == UrlsOf(pre.list)
ToActivate == SnapshotUrls \ PriorUrls
ToDeactivate == PriorUrls \ SnapshotUrls
Unchanged == SnapshotUrls \cap PriorUrls

\* The archive rows the run has appended so far.
AppendedSold ==
  SubSeq(DataRows(ss.sold), Len(DataRows(pre.sold)) + 1, Len(DataRows(ss.sold)))
AppendedFor(u) == SelectSeq(AppendedSold, LAMBDA r : UrlOf(HeaderOf(ss.sold), r) = u)

IsPrefix(s, t) == Len(s) <= Len(t) /\ SubSeq(t, 1, Len(s)) = s

Done == pc = "done"
Diffed == pc \in {"append_sold", "clear_list", "header_list", "update_list", "append_list",
                  "delete_today", "done"}

\* C1: a second completed run with the snapshot of the first completed run
\* activates nothing, deactivates nothing, and leaves the ledger rows and the
\* archive as the first run left them.
C1_Idempotent ==
  (Done /\ last.pc = "done" /\ last.all_items = all_items)
    => /\ to_add_urls = <<>>
       /\ to_sold_urls = <<>>
       /\ DataRows(ss.list) = DataRows(pre.list)
       /\ DataRows(ss.sold) = DataRows(pre.sold)

\* C2: the urls to activate and the urls to deactivate are disjoint; with the
\* unchanged urls they make up the url set of the snapshot and the url set of
\* the prior ledger.
C2_Partition ==
  Diffed => /\ Range(to_add_urls) \cap Range(to_sold_urls) = {}
            /\ Range(to_add_urls) \cup Unchanged = SnapshotUrls
            /\ Range(to_sold_urls) \cup Unchanged = PriorUrls

C2_Witness ==
  /\ Diffed
  /\ to_add_urls # <<>>
  /\ to_sold_urls # <<>>
  /\ Unchanged # {}

\* C3: for every url of the prior ledger that the snapshot lacks, the run
\* appends one archive row: it has that url, the name, price and listed date
\* of the url's ledger row before the run, and the reference date as sold date.
C3_Carryover ==
  Done => \A u \in ToDeactivate :
            LET old == RowsFor(pre.list, u)[1]
                hl == HeaderOf(pre.list)
                hs == HeaderOf(ss.sold)
            IN  /\ Len(AppendedFor(u)) = 1
                /\ LET new == AppendedFor(u)[1]
                   IN  /\ FieldOf(hs, new, "URL") = u
                       /\ FieldOf(hs, new, "ItemName") = FieldOf(hl, old, "ItemName")
                       /\ FieldOf(hs, new, "Price") = FieldOf(hl, old, "Price")
                       /\ FieldOf(hs, new, "ListedDate") = FieldOf(hl, old, "ListedDate")
                       /\ FieldOf(hs, new, "SoldDate") = yesterday_str(day)

C3_Witness ==
  /\ Done
  /\ \E u \in ToDeactivate :
       /\ FieldOf(HeaderOf(pre.list), RowsFor(pre.list, u)[1], "ListedDate") = "2024/04/01"
       /\ Len(AppendedFor(u)) = 1
  /\ SnapshotUrls # {}

\* C4: no step of any run changes or removes a row an archive holds; every
\* archive before the step is a prefix of the same archive after it.
C4_AppendOnly ==
  [][\A i \in DOMAIN book : IsPrefix(DataRows(book[i].sold), DataRows(book'[i].sold))]_vars

C4_Witness ==
  /\ Done
  /\ Len(DataRows(pre.sold)) >= 1
  /\ Len(DataRows(ss.sold)) > Len(DataRows(pre.sold))


\* The urls the snapshot holds in two records whose prices differ.
TwicePriced ==
  {u \in SnapshotUrls :
     \E i, j \in 1..Len(all_items) :
       /\ i < j
       /\ Trim(all_items[i][3]) = u
       /\ Trim(all_items[j][3]) = u
       /\ all_items[i][2] # all_items[j][2]}

HasFirstPrice(u) ==
  /\ Len(RowsFor(ss.list, u)) = 1
  /\ FieldOf(HeaderOf(ss.list), RowsFor(ss.list, u)[1], "Price") = FirstItemFor(u)[2]

\* C5 as claimed: whatever the prior ledger, a url the snapshot holds twice
\* with differing prices ends with one ledger row, priced as its first record.
C5_FirstPriceAnyLedger == Done => \A u \in TwicePriced : HasFirstPrice(u)

\* C5 as amended: a url the snapshot holds twice with differing prices and the
\* prior ledger does not hold ends with one ledger row, priced as its first
\* record.
C5_FirstPriceWhenNew == Done => \A u \in TwicePriced \ PriorUrls : HasFirstPrice(u)

C5_Witness ==
  /\ Done
  /\ TwicePriced \ PriorUrls # {}
  /\ DataRows(pre.list) # <<>>

\* C6: after a completed run the ledger holds the prior rows of the unchanged
\* urls, one row for every url to activate, no row of a url to deactivate and
\* no row of any other url.
C6_NewLedger ==
  Done => /\ \A u \in Unchanged : RowsFor(ss.list, u) = RowsFor(pre.list, u)
          /\ \A u \in ToActivate : Len(RowsFor(ss.list, u)) = 1
          /\ \A u \in ToDeactivate : RowsFor(ss.list, u) = <<>>
          /\ UrlsOf(ss.list) \subseteq Unchanged \cup ToActivate

\* C7: a url in both the snapshot and the prior ledger keeps its ledger rows
\* cell for cell, and no archive row is appended for it.
C7_UnchangedFrame ==
  Done => \A u \in Unchanged :
            /\ RowsFor(ss.list, u) = RowsFor(pre.list, u)
            /\ AppendedFor(u) = <<>>

C7_Witness ==
  /\ Done
  /\ \E u \in Unchanged :
       FieldOf(HeaderOf(pre.list), RowsFor(pre.list, u)[1], "Price") # FirstItemFor(u)[2]
  /\ ToActivate # {}

\* C8: a url of the snapshot that the prior ledger lacks gets one ledger row:
\* the name and price of its first snapshot record, the url, the reference
\* date as listed date; and no archive row is appended for it.
C8_ActivationRow ==
  Done => \A u \in ToActivate :
            /\ Len(RowsFor(ss.list, u)) = 1
            /\ LET new == RowsFor(ss.list, u)[1]
                   h == HeaderOf(ss.list)
               IN  /\ FieldOf(h, new, "ItemName") = FirstItemFor(u)[1]
                   /\ FieldOf(h, new, "Price") = FirstItemFor(u)[2]
                   /\ FieldOf(h, new, "URL") = u
                   /\ FieldOf(h, new, "ListedDate") = yesterday_str(day)
            /\ AppendedFor(u) = <<>>

C8_Witness ==
  /\ Done
  /\ ToActivate # {}
  /\ HeaderOf(pre.list) = LIST_PERMUTED
  /\ DataRows(pre.list) # <<>>

\* C9: a run that created the today sheet has attempted to delete it when it
\* ends, however it ends; a failed deletion does not fail the run.
C9_CleanupAlways ==
  (pc \in {"done", "raised"} /\ ws_today = "sheet")
    => /\ deleted # "none"
       /\ deleted = "failed" => pc = "done"

\* C10 as claimed: once safe_click has used up its retries and raised, the run
\* is unwinding: no later step of the target is executed.
C10_ClickFatal ==
  click_gave_up => (exc # "none" /\ pc \in {"finally", "raised"})

\* C10 as amended: when safe_click uses up its retries and raises, run_once
\* catches the exception and goes on with the pagination of the same page.
C10_ClickSkipped ==
  [][(pc = "safe_click" /\ attempt # Retries /\ attempt' = Retries)
       => (pc' = "click_more" /\ exc' = "none")]_vars

C10_Witness ==
  /\ Done
  /\ click_gave_up
  /\ ToActivate # {}
  /\ UrlsOf(ss.list) = Unchanged \cup ToActivate


\* The runs of TARGETS[i] that have ended in the running execution of the
\* script, as "done" (run_once returned) or "raised" (an exception left it).
EndedNow(i, how) == \E k \in 1..Len(log[i]) : log[i][k].run = run /\ log[i][k].pc = how

\* C11: the targets before the one at work have all returned normally, in
\* the configured order; once an exception has left run_once for a target no
\* later target is started; the summary line is printed only when run_once
\* has returned normally for every target.
C11_BatchHalts ==
  /\ \A i \in DOMAIN TARGETS : i < tidx => EndedNow(i, "done")
  /\ \A i \in DOMAIN TARGETS : i > tidx => ~EndedNow(i, "done") /\ ~EndedNow(i, "raised")
  /\ \A i \in DOMAIN TARGETS : EndedNow(i, "raised") => (tidx = i /\ ~summary)
  /\ summary => \A i \in DOMAIN TARGETS : EndedNow(i, "done")

C11_Witness ==
  /\ Len(TARGETS) >= 2
  /\ pc = "raised"
  /\ driver = "quit"
  /\ tidx = 1
  /\ ws_today = "sheet"


\* C12: a run_once that built a driver has called driver.quit() exactly once
\* when it has ended, however it ended, and never before it ends.
C12_DriverReleased ==
  /\ (pc \in {"done", "raised", "exited"} /\ driver # "none") => (driver = "quit" /\ quits = 1)
  /\ (pc \notin {"idle", "done", "raised", "exited"}) => (driver = "open" /\ quits = 0)

C12_Witness ==
  /\ pc = "raised"
  /\ exc = "Exception"
  /\ pre.list.exists
  /\ ~ss.list.exists \/ ss.list.values = <<>>
  /\ driver = "quit"


\* C13: every waiting loop of the crawl ends after a bounded number of rounds,
\* whatever the page does: safe_click after at most Retries attempts,
\* click_more_until_done after at most max_clicks clicks, and
\* slow_scroll_to_load_all after finitely many polls.
C13_BoundedWaiting ==
  /\ [](attempt <= Retries /\ clicks <= max_clicks)
  /\ (pc = "safe_click") ~> (pc # "safe_click")
  /\ (pc = "click_more") ~> (pc # "click_more")
  /\ (pc = "slow_scroll") ~> (pc # "slow_scroll")


\* What a sheet says, whatever the order of its columns: its column names, and
\* row by row the value under each name.
Logical(ws) ==
  [names |-> {HeaderOf(ws)[i] : i \in 1..Len(HeaderOf(ws))},
   rows |-> [k \in 1..Len(DataRows(ws)) |->
               [c \in {HeaderOf(ws)[i] : i \in 1..Len(HeaderOf(ws))}
                  |-> FieldOf(HeaderOf(ws), DataRows(ws)[k], c)]]]

\* The second target has returned, after the first did with the same snapshot.
BothDone ==
  /\ Done
  /\ tidx = 2
  /\ ended[1].pc = "done"
  /\ ended[1].all_items = all_items

\* What remains of a sheet's header and rows when a required column is added.
KeepsColumns(old, new, required) ==
  /\ old.exists =>
       /\ IsPrefix(HeaderOf(old), HeaderOf(new))
       /\ DataRows(new) = DataRows(old)
       /\ \A i \in (Len(HeaderOf(old)) + 1)..Len(HeaderOf(new)) :
            /\ HeaderOf(new)[i] \in {required[k] : k \in 1..Len(required)}
            /\ \A j \in 1..Len(HeaderOf(old)) : HeaderOf(old)[j] # HeaderOf(new)[i]
  /\ \A k \in 1..Len(required) : \E i \in 1..Len(HeaderOf(new)) : HeaderOf(new)[i] = required[k]

\* C14: a run on a spreadsheet whose ledger and archive columns are reordered
\* activates and deactivates the same urls as the run on the original with
\* the same snapshot, and leaves a ledger and an archive that say the same
\* under each column name; and get_or_create_worksheet puts a missing
\* required header after the existing ones and leaves columns and rows alone.
C14_ColumnOrder ==
  /\ [](BothDone => /\ to_add_urls = ended[1].add
                    /\ to_sold_urls = ended[1].sold
                    /\ Logical(book[2].list) = Logical(book[1].list)
                    /\ Logical(book[2].sold) = Logical(book[1].sold))
  /\ [][/\ pc = "list_sheet" /\ pc' = "sold_sheet"
             => KeepsColumns(ss.list, book'[tidx].list, LIST_HEADERS)
        /\ pc = "sold_sheet" /\ pc' = "diff"
             => KeepsColumns(ss.sold, book'[tidx].sold, SOLD_HEADERS)]_vars

C14_Witness ==
  /\ BothDone
  /\ HeaderOf(book[2].list) # HeaderOf(book[1].list)
  /\ HeaderOf(book[2].sold) # HeaderOf(book[1].sold)
  /\ Len(HeaderOf(pre.list)) < Len(HeaderOf(ss.list))
  /\ to_add_urls # <<>>
  /\ to_sold_urls # <<>>
  /\ Len(DataRows(book[1].sold)) = 2


\* No two rows of the sheet stand for the same url.
UniqueUrls(ws) ==
  \A i, j \in 1..Len(DataRows(ws)) :
    (i # j /\ UrlOf(HeaderOf(ws), DataRows(ws)[i]) # "")
      => UrlOf(HeaderOf(ws), DataRows(ws)[i]) # UrlOf(HeaderOf(ws), DataRows(ws)[j])

\* A snapshot that holds a url more than once.
RepeatsUrl(items) == \E i, j \in 1..Len(items) : i < j /\ items[i][3] = items[j][3]

\* C15: from a ledger whose urls are unique, after every completed run,
\* whatever the snapshots, no two ledger rows have the same url.
C15_UniqueUrls == Done => UniqueUrls(ss.list)

C15_Witness ==
  /\ Done
  /\ run >= 2
  /\ last.pc = "done"
  /\ RepeatsUrl(last.all_items)
  /\ RepeatsUrl(all_items)
  /\ Len(DataRows(ss.list)) >= 1


\* Code-point order of the characters of urls, and the lexicographic order of
\* strings that follows from it.
Alphabet == " /0123456789:ABCDEFGHIJKLMNOPQRSTUVWXYZabcdefghijklmnopqrstuvwxyz"
Rank(c) == CHOOSE i \in 1..Len(Alphabet) : SubSeq(Alphabet, i, i) = c
LexLess(a, b) ==
  \E k \in 1..Len(b) :
    /\ k <= Len(a) + 1
    /\ SubSeq(a, 1, k - 1) = SubSeq(b, 1, k - 1)
    /\ k = Len(a) + 1 \/ Rank(SubSeq(a, k, k)) < Rank(SubSeq(b, k, k))

\* The urls of the rows are in strictly ascending order.
Ascending(header, rows) ==
  \A i, j \in 1..Len(rows) : i < j => LexLess(UrlOf(header, rows[i]), UrlOf(header, rows[j]))

\* s can be had from t by leaving rows out.
RECURSIVE IsSubseq(_, _)
IsSubseq(s, t) ==
  IF s = <<>> THEN TRUE
  ELSE IF t = <<>> THEN FALSE
  ELSE IF Head(s) = Head(t) THEN IsSubseq(Tail(s), Tail(t))
  ELSE IsSubseq(s, Tail(t))

\* The ledger rows after the run: those kept from before, then those added.
AddedRows ==
  SubSeq(DataRows(ss.list), Len(DataRows(ss.list)) - Cardinality(ToActivate) + 1,
         Len(DataRows(ss.list)))
KeptRows == SubSeq(DataRows(ss.list), 1, Len(DataRows(ss.list)) - Cardinality(ToActivate))

\* C16: after a completed run the ledger holds its header, then prior rows in
\* their prior order (every row of a url that was not deactivated among
\* them), then one row per activated url in ascending order of url; the rows
\* the run appended to the archive are in ascending order of url.
C16_WriteOrder ==
  Done =>
    /\ Len(ss.list.values) >= 1
    /\ pre.list.exists => IsPrefix(HeaderOf(pre.list), HeaderOf(ss.list))
    /\ Len(DataRows(ss.list)) >= Cardinality(ToActivate)
    /\ IsSubseq(KeptRows, DataRows(pre.list))
    /\ IsSubseq(SelectSeq(DataRows(pre.list),
                          LAMBDA r : UrlOf(HeaderOf(pre.list), r) \notin ToDeactivate),
                KeptRows)
    /\ {UrlOf(HeaderOf(ss.list), AddedRows[i]) : i \in 1..Len(AddedRows)} = ToActivate
    /\ Ascending(HeaderOf(ss.list), AddedRows)
    /\ Ascending(HeaderOf(ss.sold), AppendedSold)

C16_Witness ==
  /\ Done
  /\ Cardinality(ToActivate) = 2
  /\ LexLess(all_items[2][3], all_items[1][3])
  /\ KeptRows # <<>>
  /\ AppendedSold # <<>>


\* C17: a url with rows in the archive that the ledger lacks and the snapshot
\* holds is activated like any new url, dated with the run's reference date,
\* and its archive rows stay; a url with rows in the archive that the ledger
\* holds and the snapshot lacks gets one more archive row after the old ones.
C17_Relisting ==
  Done => \A u \in UrlsOf(pre.sold) :
            /\ u \in ToActivate =>
                 /\ Len(RowsFor(ss.list, u)) = 1
                 /\ FieldOf(HeaderOf(ss.list), RowsFor(ss.list, u)[1], "ListedDate")
                      = yesterday_str(day)
                 /\ RowsFor(ss.sold, u) = RowsFor(pre.sold, u)
            /\ u \in ToDeactivate =>
                 /\ Len(RowsFor(ss.sold, u)) = Len(RowsFor(pre.sold, u)) + 1
                 /\ IsPrefix(RowsFor(pre.sold, u), RowsFor(ss.sold, u))

C17_Witness ==
  /\ Done
  /\ last.pc = "done"
  /\ \E u \in ToDeactivate :
       /\ Len(RowsFor(ss.sold, u)) = 2
       /\ FieldOf(HeaderOf(ss.sold), RowsFor(ss.sold, u)[1], "SoldDate") = SoldRec.SoldDate
       /\ FieldOf(HeaderOf(ss.sold), RowsFor(ss.sold, u)[2], "ListedDate") \in Range(DATES)
       /\ FieldOf(HeaderOf(ss.sold), RowsFor(ss.sold, u)[2], "SoldDate") = yesterday_str(day)


\* C18: a completed run has issued one append to the archive, of one row per
\* deactivated url, when there is a url to deactivate, and none when there
\* is not.
C18_NoEmptyAppend ==
  Done => sold_appends = IF ToDeactivate = {} THEN <<>> ELSE <<Cardinality(ToDeactivate)>>

C18_Witness ==
  /\ Done
  /\ ToDeactivate = {}
  /\ ToActivate # {}
  /\ DataRows(pre.list) # <<>>
  /\ sold_appends = <<>>


HasRowFor(u) == RowsFor(ss.list, u) # <<>> \/ RowsFor(ss.sold, u) # <<>>

\* The spreadsheet at work had no ledger row and no archive row before the
\* first execution.
FromEmpty == DataRows(origin[tidx].list) = <<>> /\ DataRows(origin[tidx].sold) = <<>>

\* The urls some completed run on the spreadsheet at work had in its snapshot:
\* from empty tables, the urls that were ever activated.
EverActive ==
  UNION {{Trim(u) : u \in log[tidx][k].urls} : k \in {n \in 1..Len(log[tidx]) : log[tidx][n].pc = "done"}}
    \ {""}

\* C19: at every point of a run, and in what an aborted run leaves behind,
\* every url of the prior ledger that the snapshot lacks has a row in the
\* ledger or in the archive; and from empty tables, when a run has ended,
\* completed or aborted, every url ever activated has a row in the ledger or
\* in the archive.
C19_NoListingLost ==
  tidx > 0 =>
    /\ \A u \in ToDeactivate : HasRowFor(u)
    /\ (FromEmpty /\ pc \in {"done", "raised", "exited"}) => \A u \in EverActive : HasRowFor(u)


\* The runs on the spreadsheet at work so far, oldest first, and the reference
\* date of the k-th of them.
Hist == log[tidx]
AllCompleted == \A k \in 1..Len(Hist) : Hist[k].pc = "done"
RefDate(k) == DATES[Hist[k].day]
InSnap(u, k) == \E x \in Hist[k].urls : Trim(x) = u

\* From empty tables and over completed runs: run k took u from absent to
\* present in the ledger; run k took it out; the run that activated the
\* occurrence of u the ledger held after run k.
ActivatedIn(u, k) == InSnap(u, k) /\ (k = 1 \/ ~InSnap(u, k - 1))
DeactivatedIn(u, k) == k > 1 /\ InSnap(u, k - 1) /\ ~InSnap(u, k)
ActivationOf(u, k) ==
  CHOOSE j \in 1..k : ActivatedIn(u, j) /\ \A i \in j..k : InSnap(u, i)
Sales(u) == {k \in 1..Len(Hist) : DeactivatedIn(u, k)}
NthSale(u, n) == CHOOSE k \in Sales(u) : Cardinality({j \in Sales(u) : j < k}) = n - 1

\* C20: after completed runs from an empty ledger and archive, every ledger row
\* carries the reference date of the run that last took its url from absent to
\* present, and the archive rows of a url are, in order, one per run that took
\* the url out, with the reference date of the run that had activated that
\* occurrence and the reference date of the run that took it out; the runs in
\* between, whose snapshots held the url, show in neither date.
C20_DateLifecycle ==
  (tidx > 0 /\ Done /\ FromEmpty /\ AllCompleted) =>
    /\ \A i \in 1..Len(DataRows(ss.list)) :
         LET r == DataRows(ss.list)[i]
             u == UrlOf(HeaderOf(ss.list), r)
         IN  /\ InSnap(u, Len(Hist))
             /\ FieldOf(HeaderOf(ss.list), r, "ListedDate") = RefDate(ActivationOf(u, Len(Hist)))
    /\ \A u \in UrlsOf(ss.sold) \cup EverActive :
         /\ Len(RowsFor(ss.sold, u)) = Cardinality(Sales(u))
         /\ \A n \in 1..Len(RowsFor(ss.sold, u)) :
              LET r == RowsFor(ss.sold, u)[n]
                  k == NthSale(u, n)
              IN  /\ FieldOf(HeaderOf(ss.sold), r, "ListedDate") = RefDate(ActivationOf(u, k - 1))
                  /\ FieldOf(HeaderOf(ss.sold), r, "SoldDate") = RefDate(k)

\* The item was listed, was taken out by a run of a later day, and is listed
\* again by a run of a still later day.
C20_Witness ==
  /\ Done /\ FromEmpty /\ AllCompleted
  /\ \E u \in UrlsOf(ss.list) \cap UrlsOf(ss.sold) :
       /\ ActivationOf(u, Len(Hist)) > NthSale(u, 1)
       /\ RefDate(ActivationOf(u, Len(Hist))) # RefDate(NthSale(u, 1))
       /\ RefDate(NthSale(u, 1)) # RefDate(ActivationOf(u, NthSale(u, 1) - 1))

====
